---- MODULE Spec2Model ----
(***************************************************************************)
(* ARM Message Handling Unit mailbox driver (drivers/mailbox/arm_mhu.c).   *)
(*                                                                         *)
(* Representation:                                                         *)
(*   - a u32 register value or command word is the set of its one-bits    *)
(*     (0 is {}, ~0 is 0..31, | is \cup, &~ is \);                         *)
(*   - a byte array (the payload window, a client buffer) is a set of      *)
(*     disjoint runs [start, len, seed]; the byte at start+i of a run is   *)
(*     (seed+i) % 256 and a byte covered by no run is 0.  Byte(R, o) reads *)
(*     one byte, memcpy copies byte ranges;                                *)
(*   - a pointer to a struct mhu_data_buf is the descriptor's number in    *)
(*     MsgTab, NULL is 0.                                                  *)
(***************************************************************************)
EXTENDS Integers, Sequences, FiniteSets, TLC

\* ------------------------------------------------------------ bounds
\* accepted mhu_send_data calls plus peer doorbell rings in one behaviour
MaxOps == 3
\* bytes by which the oversized descriptor exceeds PAYLOAD_MAX_SIZE
MaxOverrun == 1
\* size of the short payloads
SmallSize == 4
\* the same budget of sends plus rings for the two started channels of
\* SpecStarted
MaxStartedOps == 4

\* ------------------------------------------------------------ constants
CHANNEL_MAX == 2
PAYLOAD_MAX_SIZE == 512
PAYLOAD_OFFSET == 1024
WordBits == 32
ByteRange == 256

NULL == 0
Chan == 0 .. (CHANNEL_MAX - 1)

\* ------------------------------------------------------------ register map
\* a receive block offset that ignores the channel index
rx_offset_low(idx) == 0 * 32

RX_OFFSET(idx) == idx * 32
RX_STATUS(idx) == RX_OFFSET(idx)
RX_SET(idx) == RX_OFFSET(idx) + 8
RX_CLEAR(idx) == RX_OFFSET(idx) + 16

TX_OFFSET(idx) == 256 + idx * 32
TX_STATUS(idx) == TX_OFFSET(idx)
TX_SET(idx) == TX_OFFSET(idx) + 8
TX_CLEAR(idx) == TX_OFFSET(idx) + 16

RX_PAYLOAD(chan) == chan * PAYLOAD_OFFSET

\* a transmit slot that starts one byte early
tx_payload_early(chan) == chan * PAYLOAD_OFFSET + PAYLOAD_MAX_SIZE - 1

TX_PAYLOAD(chan) == chan * PAYLOAD_OFFSET + PAYLOAD_MAX_SIZE

\* the status registers of the control window: the only ones that hold state
StatRegs == {RX_STATUS(i) : i \in Chan} \cup {TX_STATUS(i) : i \in Chan}

\* ~0
AllBits == 0 .. (WordBits - 1)

readl(regs, off) == IF off \in StatRegs THEN regs[off] ELSE {}

\* a write to a SET register ors the value into the block's STAT, a write to
\* a CLEAR register clears those bits of it; STAT itself is read-only
writel(regs, v, off) ==
    IF (off - 8) \in StatRegs THEN [regs EXCEPT ![off - 8] = @ \cup v]
    ELSE IF (off - 16) \in StatRegs THEN [regs EXCEPT ![off - 16] = @ \ v]
    ELSE regs

\* ------------------------------------------------------------ byte arrays
Max(a, b) == IF a >= b THEN a ELSE b
Min(a, b) == IF a <= b THEN a ELSE b

Run(start, len, seed) == [start |-> start, len |-> len, seed |-> seed % ByteRange]

\* the part of run r inside [lo, hi), if any
Clip(r, lo, hi) ==
    LET s == Max(r.start, lo)
        e == Min(r.start + r.len, hi)
    IN  IF s < e THEN {Run(s, e - s, r.seed + (s - r.start))} ELSE {}

Shift(R, by) == {Run(r.start + by, r.len, r.seed) : r \in R}

\* the bytes [off, off+n) of R, as an array starting at 0
Slice(R, off, n) == Shift(UNION {Clip(r, off, off + n) : r \in R}, 0 - off)

\* R outside [off, off+n)
Outside(R, off, n) ==
    UNION {Clip(r, r.start, Min(r.start + r.len, off)) \cup
           Clip(r, Max(r.start, off + n), r.start + r.len) : r \in R}

\* the byte at offset o
Byte(R, o) ==
    LET hit == {r \in R : r.start <= o /\ o < r.start + r.len}
    IN  IF hit = {} THEN 0
        ELSE LET r == CHOOSE x \in hit : TRUE IN (r.seed + (o - r.start)) % ByteRange

\* memcpy(dst + doff, src + soff, n)
memcpy(dst, doff, src, soff, n) ==
    IF n <= 0 THEN dst
    ELSE Outside(dst, doff, n) \cup Shift(Slice(src, soff, n), doff)

\* the bytes [aoff, aoff+n) of A equal the bytes [boff, boff+n) of B: the two
\* ranges are made of the same runs, or else agree byte by byte
SameBytes(A, aoff, B, boff, n) ==
    \/ Slice(A, aoff, n) = Slice(B, boff, n)
    \/ \A i \in 0 .. (n - 1) : Byte(A, aoff + i) = Byte(B, boff + i)

\* ------------------------------------------------------------ descriptors
\* struct mhu_data_buf as mhu_send_data and mbox_handler use it:
\* cmd, tx_buf, tx_size, rx_buf, rx_size.  tx_buf/rx_buf: TRUE when non-NULL.
MsgTab ==
    <<  \* short payload out, short reply buffer
        [cmd |-> {0}, tx_buf |-> TRUE, tx_size |-> SmallSize, tx_seed |-> 17,
         rx_buf |-> TRUE, rx_size |-> SmallSize],
        \* notify only: no payload, no reply buffer
        [cmd |-> {1}, tx_buf |-> FALSE, tx_size |-> SmallSize, tx_seed |-> 0,
         rx_buf |-> FALSE, rx_size |-> SmallSize],
        \* payload and reply buffer larger than a slot
        [cmd |-> {0}, tx_buf |-> TRUE, tx_size |-> PAYLOAD_MAX_SIZE + MaxOverrun,
         tx_seed |-> 34, rx_buf |-> TRUE, rx_size |-> PAYLOAD_MAX_SIZE + MaxOverrun],
        \* command word 0, payload of exactly the slot size
        [cmd |-> {}, tx_buf |-> TRUE, tx_size |-> PAYLOAD_MAX_SIZE, tx_seed |-> 51,
         rx_buf |-> FALSE, rx_size |-> 0] >>

Msgs == DOMAIN MsgTab

\* the client's transmit buffer of descriptor d
TxBuf(d) == {Run(0, MsgTab[d].tx_size, MsgTab[d].tx_seed)}

\* the client's receive buffer of descriptor d before anything is copied in
RxBufInit(d) ==
    IF MsgTab[d].rx_buf THEN {Run(0, MsgTab[d].rx_size, 170)} ELSE {}

\* the peer's message: the bits it sets in the doorbell and its bytes
PeerCmd == {0}
PeerBytes == {Run(0, SmallSize, 222)}

\* the descriptors whose payload fits the transmit slot
FitMsgs == {d \in Msgs : MsgTab[d].tx_size <= PAYLOAD_MAX_SIZE}

\* chan->rx_irq: the idx-th interrupt of the platform device
rx_irq(idx) == idx

VARIABLES
    chan_data,  \* chan_data[ch]: chan->data, a descriptor or NULL
    mbox,       \* the control window at mbox_base: STAT register -> bits
    payload,    \* the payload window at payload_base
    rx_mem,     \* rx_mem[d]: the bytes of descriptor d's rx_buf
    irq_desc,   \* irq_desc[line]: the channel whose handler owns it, or NoAction
    rcvd,       \* rcvd[ch]: descriptors handed to mbox_chan_received_data
    hctx,       \* hctx[ch]: the irq thread of channel ch inside mbox_handler
    cctx,       \* cctx[ch]: the client of channel ch inside a channel operation
    nring,      \* peer rings so far
    nsend,      \* accepted mhu_send_data calls so far
    armed,      \* armed[ch]: accepted sends less notifications (counted
                \* under SpecStarted)
    owed        \* owed[ch]: peer messages rung, with the doorbell clear, while
                \* armed[ch] > 0 and not yet followed by a notification
                \* (counted under SpecStarted)

vars == <<chan_data, mbox, payload, rx_mem, irq_desc, rcvd, hctx, cctx,
          nring, nsend, armed, owed>>

NoAction == 0 - 1
IrqLines == {rx_irq(ch) : ch \in Chan}

\* the memory both sides of a call see: the channel slots, the two windows,
\* the client's buffers and what the client was handed
Shared == [data |-> chan_data, mbox |-> mbox, payload |-> payload,
           rx_mem |-> rx_mem, rcvd |-> rcvd]

\* ------------------------------------------------------------ mbox_handler
\* a call of mbox_handler(irq, link) in progress: its position, its locals
\* (status, data), its return value and the shared memory g it acts on
HandlerEntry(g) ==
    [g |-> g, pc |-> "entry", status |-> {}, data |-> NULL, ret |-> "none"]

HandlerIdle == [pc |-> "idle", status |-> {}, data |-> NULL]

\* a copy that stops one byte short of rx_size
rx_copy_short(idx, g, data) ==
    memcpy(g.rx_mem[data], 0, g.payload, RX_PAYLOAD(idx), MsgTab[data].rx_size - 1)

\* memcpy(data->rx_buf, payload_base + RX_PAYLOAD(idx), data->rx_size)
rx_copy(idx, g, data) ==
    memcpy(g.rx_mem[data], 0, g.payload, RX_PAYLOAD(idx), MsgTab[data].rx_size)

\* a handler that acknowledges the doorbell although no receive is armed
no_data_ack(idx, f) ==
    [f EXCEPT !.g.mbox = writel(@, AllBits, RX_CLEAR(idx)),
              !.pc = "ret", !.ret = "IRQ_HANDLED"]

\* if (!data) return IRQ_NONE
no_data(idx, f) == [f EXCEPT !.pc = "ret", !.ret = "IRQ_NONE"]

\* a test that looks at the status only
status_only(idx, irq, status) == status # {}

\* if (status && irq == chan->rx_irq)
for_this_chan(idx, irq, status) == status # {} /\ irq = rx_irq(idx)

\* a handler that clears the doorbell before it copies
handler_step_ack_first(idx, irq, f) ==
    CASE f.pc = "entry" ->
            LET status == readl(f.g.mbox, RX_STATUS(idx))
            IN  IF for_this_chan(idx, irq, status)
                THEN [f EXCEPT !.status = status, !.pc = "fetch"]
                ELSE [f EXCEPT !.status = status, !.pc = "ret", !.ret = "IRQ_HANDLED"]
      [] f.pc = "fetch" ->
            LET data == f.g.data[idx]
            IN  IF data = NULL
                THEN no_data(idx, f)
                ELSE [f EXCEPT !.data = data,
                               !.g.mbox = writel(@, AllBits, RX_CLEAR(idx)),
                               !.pc = "copy"]
      [] f.pc = "copy" ->
            IF MsgTab[f.data].rx_buf
            THEN [f EXCEPT !.g.rx_mem[f.data] = rx_copy(idx, f.g, f.data),
                           !.pc = "null"]
            ELSE [f EXCEPT !.pc = "null"]
      [] f.pc = "null" ->
            [f EXCEPT !.g.data[idx] = NULL, !.pc = "notify"]
      [] f.pc = "notify" ->
            [f EXCEPT !.g.rcvd[idx] = Append(@, f.data), !.pc = "ack"]
      [] f.pc = "ack" ->
            [f EXCEPT !.pc = "ret", !.ret = "IRQ_HANDLED"]
      [] OTHER -> f

\* one step of mbox_handler for channel idx
mbox_handler_step(idx, irq, f) ==
    CASE f.pc = "entry" ->
            LET status == readl(f.g.mbox, RX_STATUS(idx))
            IN  IF for_this_chan(idx, irq, status)
                THEN [f EXCEPT !.status = status, !.pc = "fetch"]
                ELSE [f EXCEPT !.status = status, !.pc = "ret", !.ret = "IRQ_HANDLED"]
      [] f.pc = "fetch" ->
            LET data == f.g.data[idx]
            IN  IF data = NULL
                THEN no_data(idx, f)
                ELSE [f EXCEPT !.data = data, !.pc = "copy"]
      [] f.pc = "copy" ->
            IF MsgTab[f.data].rx_buf
            THEN [f EXCEPT !.g.rx_mem[f.data] = rx_copy(idx, f.g, f.data),
                           !.pc = "null"]
            ELSE [f EXCEPT !.pc = "null"]
      [] f.pc = "null" ->
            [f EXCEPT !.g.data[idx] = NULL, !.pc = "notify"]
      [] f.pc = "notify" ->
            [f EXCEPT !.g.rcvd[idx] = Append(@, f.data), !.pc = "ack"]
      [] f.pc = "ack" ->
            [f EXCEPT !.g.mbox = writel(@, AllBits, RX_CLEAR(idx)),
                      !.pc = "ret", !.ret = "IRQ_HANDLED"]
      [] OTHER -> f

\* a whole call: from entry to return
mbox_handler(idx, irq, g) ==
    LET s(f) == mbox_handler_step(idx, irq, f)
    IN  s(s(s(s(s(s(HandlerEntry(g)))))))

\* ------------------------------------------------------------ mhu_send_data
SendEntry(g) == [g |-> g, pc |-> "entry", ret |-> "none"]

\* a send that stores the descriptor before it tests it
null_msg_stored(idx, f) ==
    [f EXCEPT !.g.data[idx] = NULL, !.pc = "ret", !.ret = "-EINVAL"]

\* if (!data) return -EINVAL
null_msg(idx, f) == [f EXCEPT !.pc = "ret", !.ret = "-EINVAL"]

\* a ring written to the receive block's SET register
tx_ring_rx(idx, regs, msg) == writel(regs, MsgTab[msg].cmd, RX_SET(idx))

\* writel(data->cmd, mbox_base + TX_SET(idx))
tx_ring(idx, regs, msg) == writel(regs, MsgTab[msg].cmd, TX_SET(idx))

\* a send that rings the doorbell first and copies the payload after
send_step_ring_first(idx, msg, f) ==
    CASE f.pc = "entry" ->
            IF msg = NULL
            THEN [f EXCEPT !.pc = "ret", !.ret = "-EINVAL"]
            ELSE [f EXCEPT !.g.data[idx] = msg, !.pc = "copy"]
      [] f.pc = "copy" ->
            [f EXCEPT !.g.mbox = tx_ring(idx, @, msg), !.pc = "ring"]
      [] f.pc = "ring" ->
            IF MsgTab[msg].tx_buf
            THEN [f EXCEPT !.g.payload =
                              memcpy(@, TX_PAYLOAD(idx), TxBuf(msg), 0,
                                     MsgTab[msg].tx_size),
                           !.pc = "ret", !.ret = "0"]
            ELSE [f EXCEPT !.pc = "ret", !.ret = "0"]
      [] OTHER -> f

\* one step of mhu_send_data(link, msg) for channel idx
mhu_send_data_step(idx, msg, f) ==
    CASE f.pc = "entry" ->
            IF msg = NULL
            THEN null_msg(idx, f)
            ELSE [f EXCEPT !.g.data[idx] = msg, !.pc = "copy"]
      [] f.pc = "copy" ->
            IF MsgTab[msg].tx_buf
            THEN [f EXCEPT !.g.payload =
                              memcpy(@, TX_PAYLOAD(idx), TxBuf(msg), 0,
                                     MsgTab[msg].tx_size),
                           !.pc = "ring"]
            ELSE [f EXCEPT !.pc = "ring"]
      [] f.pc = "ring" ->
            [f EXCEPT !.g.mbox = tx_ring(idx, @, msg),
                      !.pc = "ret", !.ret = "0"]
      [] OTHER -> f

mhu_send_data(idx, msg, g) ==
    LET s(f) == mhu_send_data_step(idx, msg, f)
    IN  s(s(s(SendEntry(g))))

\* ------------------------------------------------------------ irq core
\* request_threaded_irq without IRQF_SHARED: a line that has an action is busy
request_threaded_irq(desc, line, dev) ==
    IF desc[line] = NoAction
    THEN [desc |-> [desc EXCEPT ![line] = dev], err |-> "0"]
    ELSE [desc |-> desc, err |-> "-EBUSY"]

\* free_irq removes the action registered with this dev_id, if there is one
free_irq(desc, line, dev) ==
    IF desc[line] = dev THEN [desc EXCEPT ![line] = NoAction] ELSE desc

\* ------------------------------------------------------------ other ops
\* a startup that drops the error of request_threaded_irq
startup_returns_zero(idx, desc) ==
    [desc |-> request_threaded_irq(desc, rx_irq(idx), idx).desc, err |-> "0"]

mhu_startup(idx, desc) == request_threaded_irq(desc, rx_irq(idx), idx)

\* a shutdown that leaves chan->data as it is
shutdown_keeps_data(idx, data) == data

mhu_shutdown_data(idx, data) == [data EXCEPT ![idx] = NULL]

\* a shutdown that leaves the handler on its line
shutdown_keeps_irq(idx, desc) == desc

mhu_shutdown_irq(idx, desc) == free_irq(desc, rx_irq(idx), idx)

\* a poll of the transmit status of every channel
last_tx_done_any(idx, regs) == \A i \in Chan : readl(regs, TX_STATUS(i)) = {}

mhu_last_tx_done(idx, regs) == readl(regs, TX_STATUS(idx)) = {}

ClientIdle == [pc |-> "idle", msg |-> NULL]

Quiet == /\ \A ch \in Chan : hctx[ch].pc = "idle"
         /\ \A ch \in Chan : cctx[ch].pc = "idle"

Installed(ch) == irq_desc[rx_irq(ch)] = ch

Init ==
    /\ chan_data = [ch \in Chan |-> NULL]
    /\ mbox = [r \in StatRegs |-> {}]
    /\ payload = {}
    /\ rx_mem = [d \in Msgs |-> RxBufInit(d)]
    /\ irq_desc = [l \in IrqLines |-> NoAction]
    /\ rcvd = [ch \in Chan |-> <<>>]
    /\ hctx = [ch \in Chan |-> HandlerIdle]
    /\ cctx = [ch \in Chan |-> ClientIdle]
    /\ nring = 0
    /\ nsend = 0
    /\ armed = [ch \in Chan |-> 0]
    /\ owed = [ch \in Chan |-> 0]

\* ------------------------------------------------------------ bookkeeping
\* an accepted send is counted
Accepted(ret) == nsend' = IF ret = "0" THEN nsend + 1 ELSE nsend

SendBudget(msg, max) == msg # NULL => nsend + nring < max

\* a notification takes one armed descriptor and settles one owed message
Settle(ch, g) ==
    LET n == Len(g.rcvd[ch]) - Len(rcvd[ch])
    IN  /\ armed' = [armed EXCEPT ![ch] = Max(0, @ - n)]
        /\ owed' = [owed EXCEPT ![ch] = Max(0, @ - n)]

\* ------------------------------------------------------------ whole calls
\* Spec: every call runs from entry to return before the next one starts
Startup(ch) ==
    /\ Quiet
    /\ irq_desc' = mhu_startup(ch, irq_desc).desc
    /\ UNCHANGED <<chan_data, mbox, payload, rx_mem, rcvd, hctx, cctx, nring,
                   nsend, armed, owed>>

Shutdown(ch) ==
    /\ Quiet
    /\ chan_data' = mhu_shutdown_data(ch, chan_data)
    /\ irq_desc' = mhu_shutdown_irq(ch, irq_desc)
    /\ UNCHANGED <<mbox, payload, rx_mem, rcvd, hctx, cctx, nring, nsend, armed,
                   owed>>

SendData(ch, msg) ==
    /\ Quiet
    /\ SendBudget(msg, MaxOps)
    /\ LET r == mhu_send_data(ch, msg, Shared)
       IN  /\ chan_data' = r.g.data
           /\ mbox' = r.g.mbox
           /\ payload' = r.g.payload
           /\ Accepted(r.ret)
    /\ UNCHANGED <<rx_mem, irq_desc, rcvd, hctx, cctx, nring, armed, owed>>

\* a poll: the value returned is mhu_last_tx_done(ch, mbox)
LastTxDone(ch) ==
    /\ Quiet
    /\ mhu_last_tx_done(ch, mbox) \in BOOLEAN
    /\ UNCHANGED vars

\* the irq core runs the handler registered on the channel's line
Handler(ch) ==
    /\ Quiet
    /\ Installed(ch)
    /\ LET r == mbox_handler(ch, rx_irq(ch), Shared)
       IN  /\ chan_data' = r.g.data
           /\ mbox' = r.g.mbox
           /\ rx_mem' = r.g.rx_mem
           /\ rcvd' = r.g.rcvd
           /\ Settle(ch, r.g)
    /\ UNCHANGED <<payload, irq_desc, hctx, cctx, nring, nsend>>

\* ------------------------------------------------------------ the peer
\* the peer writes a message into the channel's receive slot and rings the
\* receive doorbell
peer_ring(ch, g) ==
    [g EXCEPT !.payload = memcpy(@, RX_PAYLOAD(ch), PeerBytes, 0, SmallSize),
              !.mbox = writel(@, PeerCmd, RX_SET(ch))]

\* the peer has consumed the message: it clears the transmit doorbell
peer_ack(ch, g) == [g EXCEPT !.mbox = writel(@, AllBits, TX_CLEAR(ch))]

Ring(ch, max) ==
    /\ nsend + nring < max
    /\ nring' = nring + 1
    /\ LET g == peer_ring(ch, Shared)
       IN  /\ payload' = g.payload
           /\ mbox' = g.mbox
    /\ UNCHANGED <<chan_data, rx_mem, irq_desc, rcvd, hctx, cctx, nsend>>

PeerRing(ch) ==
    /\ Ring(ch, MaxOps)
    /\ UNCHANGED <<armed, owed>>

\* the same ring by a peer that waits for the doorbell to be clear, with the
\* messages rung while a receive is armed counted
PeerRingArmed(ch) ==
    /\ readl(mbox, RX_STATUS(ch)) = {}
    /\ Ring(ch, MaxStartedOps)
    /\ owed' = IF armed[ch] > 0 THEN [owed EXCEPT ![ch] = @ + 1] ELSE owed
    /\ UNCHANGED armed

PeerAck(ch) ==
    /\ readl(mbox, TX_STATUS(ch)) # {}
    /\ mbox' = peer_ack(ch, Shared).mbox
    /\ UNCHANGED <<chan_data, payload, rx_mem, irq_desc, rcvd, hctx, cctx,
                   nring, nsend, armed, owed>>

Next ==
    \/ \E ch \in Chan : Startup(ch)
    \/ \E ch \in Chan : Shutdown(ch)
    \/ \E ch \in Chan, msg \in Msgs \cup {NULL} : SendData(ch, msg)
    \/ \E ch \in Chan : LastTxDone(ch)
    \/ \E ch \in Chan : Handler(ch)
    \/ \E ch \in Chan : Quiet /\ PeerRing(ch)
    \/ \E ch \in Chan : Quiet /\ PeerAck(ch)

Spec == Init /\ [][Next]_vars

\* ------------------------------------------------------------ interleaved
\* SpecConc: the client of a channel, the channel's irq thread and the peer
\* run in parallel; a call advances one shared-memory access at a time.
\* A client makes one call at a time on its channel; the irq thread of a
\* line (IRQF_ONESHOT) runs one handler at a time.

\* the irq thread's frame of channel ch on the shared memory as it is now
HFrame(ch) ==
    [g |-> Shared, pc |-> hctx[ch].pc, status |-> hctx[ch].status,
     data |-> hctx[ch].data, ret |-> "none"]

HApply(ch, f) ==
    /\ chan_data' = f.g.data
    /\ mbox' = f.g.mbox
    /\ rx_mem' = f.g.rx_mem
    /\ rcvd' = f.g.rcvd
    /\ Settle(ch, f.g)
    /\ hctx' = [hctx EXCEPT ![ch] =
                   IF f.pc = "ret" THEN HandlerIdle
                   ELSE [pc |-> f.pc, status |-> f.status, data |-> f.data]]
    /\ UNCHANGED <<payload, irq_desc, cctx, nring, nsend>>

\* the irq core calls the handler: its first step
HandlerCall(ch) ==
    /\ hctx[ch].pc = "idle"
    /\ Installed(ch)
    /\ HApply(ch, mbox_handler_step(ch, rx_irq(ch), HandlerEntry(Shared)))

HandlerStep(ch) ==
    /\ hctx[ch].pc # "idle"
    /\ HApply(ch, mbox_handler_step(ch, rx_irq(ch), HFrame(ch)))

SFrame(ch) == [g |-> Shared, pc |-> cctx[ch].pc, ret |-> "none"]

SApply(ch, msg, f) ==
    /\ chan_data' = f.g.data
    /\ mbox' = f.g.mbox
    /\ payload' = f.g.payload
    /\ cctx' = [cctx EXCEPT ![ch] =
                   IF f.pc = "ret" THEN ClientIdle ELSE [pc |-> f.pc, msg |-> msg]]
    /\ UNCHANGED <<rx_mem, irq_desc, rcvd, hctx, nring, owed>>

\* the client calls mhu_send_data: its first step
Call(ch, msg, max) ==
    /\ cctx[ch].pc = "idle"
    /\ SendBudget(msg, max)
    /\ Accepted(IF msg = NULL THEN "-EINVAL" ELSE "0")
    /\ SApply(ch, msg, mhu_send_data_step(ch, msg, SendEntry(Shared)))

SendCall(ch, msg) ==
    /\ Call(ch, msg, MaxOps)
    /\ UNCHANGED armed

\* the same call, with the accepted sends counted as armed receives
SendCallArmed(ch, msg) ==
    /\ Call(ch, msg, MaxStartedOps)
    /\ armed' = IF msg # NULL THEN [armed EXCEPT ![ch] = @ + 1] ELSE armed

SendStep(ch) ==
    /\ cctx[ch].pc \in {"copy", "ring"}
    /\ UNCHANGED <<nsend, armed>>
    /\ SApply(ch, cctx[ch].msg, mhu_send_data_step(ch, cctx[ch].msg, SFrame(ch)))

StartupCall(ch) ==
    /\ cctx[ch].pc = "idle"
    /\ irq_desc' = mhu_startup(ch, irq_desc).desc
    /\ UNCHANGED <<chan_data, mbox, payload, rx_mem, rcvd, hctx, cctx, nring,
                   nsend, armed, owed>>

\* mhu_shutdown: chan->data = NULL ...
ShutdownCall(ch) ==
    /\ cctx[ch].pc = "idle"
    /\ chan_data' = mhu_shutdown_data(ch, chan_data)
    /\ cctx' = [cctx EXCEPT ![ch] = [pc |-> "free_irq", msg |-> NULL]]
    /\ UNCHANGED <<mbox, payload, rx_mem, irq_desc, rcvd, hctx, nring, nsend,
                   armed, owed>>

\* ... then free_irq, which returns once no handler of the line is running
ShutdownFree(ch) ==
    /\ cctx[ch].pc = "free_irq"
    /\ hctx[ch].pc = "idle"
    /\ irq_desc' = mhu_shutdown_irq(ch, irq_desc)
    /\ cctx' = [cctx EXCEPT ![ch] = ClientIdle]
    /\ UNCHANGED <<chan_data, mbox, payload, rx_mem, rcvd, hctx, nring, nsend,
                   armed, owed>>

NextConc ==
    \/ \E ch \in Chan : StartupCall(ch)
    \/ \E ch \in Chan : ShutdownCall(ch)
    \/ \E ch \in Chan : ShutdownFree(ch)
    \/ \E ch \in Chan, msg \in FitMsgs : SendCall(ch, msg)
    \/ \E ch \in Chan : SendStep(ch)
    \/ \E ch \in Chan : HandlerCall(ch)
    \/ \E ch \in Chan : HandlerStep(ch)
    \/ \E ch \in Chan : PeerRing(ch)

SpecConc == Init /\ [][NextConc]_vars

\* ------------------------------------------------------------ started
\* SpecStarted: both channels started, no Stop: client sends, handler runs and
\* the rings of a peer that waits for the doorbell to be clear interleave.  The irq thread is scheduled: a handler that can
\* be called is called, and a handler that was called runs on.
InitStarted ==
    /\ chan_data = [ch \in Chan |-> NULL]
    /\ mbox = [r \in StatRegs |-> {}]
    /\ payload = {}
    /\ rx_mem = [d \in Msgs |-> RxBufInit(d)]
    /\ irq_desc = [l \in IrqLines |-> CHOOSE ch \in Chan : rx_irq(ch) = l]
    /\ rcvd = [ch \in Chan |-> <<>>]
    /\ hctx = [ch \in Chan |-> HandlerIdle]
    /\ cctx = [ch \in Chan |-> ClientIdle]
    /\ nring = 0
    /\ nsend = 0
    /\ armed = [ch \in Chan |-> 0]
    /\ owed = [ch \in Chan |-> 0]

NextStarted ==
    \/ \E ch \in Chan, msg \in FitMsgs : SendCallArmed(ch, msg)
    \/ \E ch \in Chan : SendStep(ch)
    \/ \E ch \in Chan : HandlerCall(ch)
    \/ \E ch \in Chan : HandlerStep(ch)
    \/ \E ch \in Chan : PeerRingArmed(ch)

SpecStarted ==
    /\ InitStarted
    /\ [][NextStarted]_vars
    /\ \A ch \in Chan : WF_vars(HandlerCall(ch)) /\ WF_vars(HandlerStep(ch))

\* ------------------------------------------------------------ properties
\* the first rx_size bytes of descriptor d's buffer in rx equal the first
\* rx_size bytes of channel ch's receive slot in pl
Delivered(rx, pl, ch, d) ==
    SameBytes(rx[d], 0, pl, RX_PAYLOAD(ch), MsgTab[d].rx_size)

\* C1: a Send whose descriptor's tx_size exceeds PAYLOAD_MAX_SIZE returns
\* -EINVAL and writes neither chan->data, nor a byte of the payload window,
\* nor the transmit SET register.
C1_OversizedSendRejected ==
    [][\A ch \in Chan, msg \in Msgs :
          (MsgTab[msg].tx_size > PAYLOAD_MAX_SIZE /\ SendData(ch, msg))
          => /\ mhu_send_data(ch, msg, Shared).ret = "-EINVAL"
             /\ UNCHANGED <<chan_data, payload, mbox>>]_vars

\* C2: chan->data changes only from NULL to a descriptor by a Send, or from a
\* descriptor to NULL by the handler that has copied the receive slot into the
\* descriptor's buffer; nothing else writes it (the discard by mhu_shutdown,
\* which the channel's teardown provides for, set aside).
C2_SingleWriterHandoff ==
    [][\A ch \in Chan :
          chan_data'[ch] # chan_data[ch]
          => \/ /\ chan_data[ch] = NULL
                /\ \E msg \in Msgs : SendData(ch, msg)
             \/ /\ chan_data'[ch] = NULL
                /\ Shutdown(ch)
             \/ /\ chan_data[ch] # NULL
                /\ chan_data'[ch] = NULL
                /\ Handler(ch)
                /\ MsgTab[chan_data[ch]].rx_buf
                   => Delivered(rx_mem', payload, ch, chan_data[ch])]_vars

\* the notifications made so far, on all channels
Notified == {n \in Chan \X (1 .. MaxStartedOps) : n[2] <= Len(rcvd[n[1]])}

\* C3: on a started channel, under any interleaving of sends, rings and
\* handler runs, there are never more notifications than armed receives, and
\* every peer message rung while a receive is armed is eventually followed by
\* its notification.
C3_NotifiedExactlyOnce ==
    /\ [](Cardinality(Notified) <= nsend)
    /\ \A ch \in Chan : (owed[ch] > 0) ~> (owed[ch] = 0)

\* C4: a handler run on channel ch with RX status non-zero, its own interrupt
\* line and chan->data holding a descriptor d with an rx_buf returns
\* IRQ_HANDLED, hands exactly d to mbox_chan_received_data with the first
\* rx_size bytes of ch's receive slot in d's buffer, and leaves chan->data
\* NULL and the RX status of ch zero.
C4_HandlerDelivers ==
    \A ch \in Chan :
        LET d == chan_data[ch]
            r == mbox_handler(ch, rx_irq(ch), Shared)
        IN  (/\ Quiet
             /\ Installed(ch)
             /\ mbox[ch * 32] # {}
             /\ d # NULL
             /\ MsgTab[d].rx_buf)
            => /\ r.ret = "IRQ_HANDLED"
               /\ r.g.rcvd = [rcvd EXCEPT ![ch] = Append(@, d)]
               /\ SameBytes(r.g.rx_mem[d], 0, payload, ch * 1024, MsgTab[d].rx_size)
               /\ r.g.data[ch] = NULL
               /\ r.g.mbox[ch * 32] = {}

\* a delivery has happened: the client holds a descriptor whose buffer has the
\* peer's bytes, the slot is empty and the doorbell acknowledged
C4_Witness ==
    \E ch \in Chan :
        /\ rcvd[ch] # <<>>
        /\ LET d == rcvd[ch][Len(rcvd[ch])]
           IN  /\ MsgTab[d].rx_buf
               /\ rx_mem[d] # RxBufInit(d)
               /\ Byte(rx_mem[d], 0) = Byte(PeerBytes, 0)
        /\ chan_data[ch] = NULL
        /\ mbox[ch * 32] = {}

\* C5: a handler run on channel ch with RX status non-zero, its own interrupt
\* line and chan->data NULL returns IRQ_NONE and changes nothing: no copy, no
\* notification, no write to RX_CLEAR, chan->data still NULL.
C5_HandlerNotArmed ==
    \A ch \in Chan :
        LET r == mbox_handler(ch, rx_irq(ch), Shared)
        IN  (/\ Quiet
             /\ Installed(ch)
             /\ mbox[ch * 32] # {}
             /\ chan_data[ch] = NULL)
            => /\ r.ret = "IRQ_NONE"
               /\ r.g = Shared
               /\ r.g.mbox[ch * 32] # {}

\* the handler of a started channel faces a raised doorbell with nothing armed
C5_Witness ==
    \E ch \in Chan :
        /\ Quiet
        /\ Installed(ch)
        /\ mbox[ch * 32] # {}
        /\ chan_data[ch] = NULL
        /\ ENABLED Handler(ch)

\* the transmit status register of channel ch
TxStat(regs, ch) == regs[256 + ch * 32]

\* a poll that reads FALSE stays FALSE until the peer clears the transmit
\* status, and reads TRUE after that
BusyUntilPeerClears(ch) ==
    /\ (~mhu_last_tx_done(ch, mbox) /\ mhu_last_tx_done(ch, mbox'))
       => (Quiet /\ PeerAck(ch))
    /\ (Quiet /\ PeerAck(ch)) => mhu_last_tx_done(ch, mbox')

\* C6 as stated: after every accepted Send, whatever its command word,
\* mhu_last_tx_done on the channel returns false, keeps returning false until
\* the peer clears the channel's transmit status, and returns true after that.
C6_AnyCommandBusy ==
    [][\A ch \in Chan :
          /\ \A msg \in Msgs :
                (SendData(ch, msg) /\ mhu_send_data(ch, msg, Shared).ret = "0")
                => ~mhu_last_tx_done(ch, mbox')
          /\ BusyUntilPeerClears(ch)]_vars

\* C6, amended: the same for every accepted Send whose command word is not 0.
C6_NonZeroCommandBusy ==
    [][\A ch \in Chan :
          /\ \A msg \in Msgs :
                (/\ SendData(ch, msg)
                 /\ mhu_send_data(ch, msg, Shared).ret = "0"
                 /\ MsgTab[msg].cmd # {})
                => (~mhu_last_tx_done(ch, mbox') /\ TxStat(mbox', ch) # {})
          /\ BusyUntilPeerClears(ch)]_vars

\* a Send was accepted, the poll read false, the peer has cleared the transmit
\* status and the poll reads true again
C6_Witness ==
    \E ch \in Chan :
        /\ chan_data[ch] # NULL
        /\ MsgTab[chan_data[ch]].cmd # {}
        /\ TxStat(mbox, ch) = {}
        /\ mhu_last_tx_done(ch, mbox)

\* C7: mhu_last_tx_done(ch) returns true exactly when the transmit status
\* register of channel ch reads zero, and a poll changes no register, no
\* payload byte and no chan->data.
C7_PurePoll ==
    /\ [](\A ch \in Chan : mhu_last_tx_done(ch, mbox) <=> (TxStat(mbox, ch) = {}))
    /\ [][\A ch \in Chan : LastTxDone(ch) => UNCHANGED <<mbox, payload, chan_data>>]_vars

\* one channel's transmit doorbell is raised while another's reads zero: the
\* poll is enabled and answers differently for the two
C7_Witness ==
    \E ch \in Chan, other \in Chan :
        /\ TxStat(mbox, ch) # {}
        /\ TxStat(mbox, other) = {}
        /\ ~mhu_last_tx_done(ch, mbox)
        /\ mhu_last_tx_done(other, mbox)
        /\ ENABLED LastTxDone(ch)

\* the shared memory of a freshly constructed controller
Fresh ==
    [data |-> [ch \in Chan |-> NULL], mbox |-> [r \in StatRegs |-> {}],
     payload |-> {}, rx_mem |-> [d \in Msgs |-> RxBufInit(d)],
     rcvd |-> [ch \in Chan |-> <<>>]]

\* mhu_shutdown then mhu_startup on channel ch, from the current state
Restarted(ch) ==
    [g |-> [Shared EXCEPT !.data = mhu_shutdown_data(ch, chan_data)],
     desc |-> mhu_startup(ch, mhu_shutdown_irq(ch, irq_desc)).desc]

\* what the client sees of one cycle on channel ch of shared memory g: Send of
\* msg, a poll, the peer's reply when ring is TRUE, then interrupt delivery
Cycle(ch, msg, g, ring) ==
    LET s == mhu_send_data(ch, msg, g)
        h == mbox_handler(ch, rx_irq(ch),
                          IF ring THEN peer_ring(ch, s.g) ELSE s.g)
    IN  [sret |-> s.ret,
         done |-> mhu_last_tx_done(ch, s.g.mbox),
         hret |-> h.ret,
         got |-> SubSeq(h.g.rcvd[ch], Len(g.rcvd[ch]) + 1, Len(h.g.rcvd[ch])),
         pending |-> h.g.data[ch],
         rx |-> h.g.rx_mem]

SameCycle(a, b) ==
    /\ a.sret = b.sret
    /\ a.done = b.done
    /\ a.hret = b.hret
    /\ a.got = b.got
    /\ a.pending = b.pending
    /\ \A i \in 1 .. Len(a.got) :
          SameBytes(a.rx[a.got[i]], 0, b.rx[a.got[i]], 0, MsgTab[a.got[i]].rx_size)

\* Stop then Start on ch leaves the handler installed and chan->data NULL, and
\* a cycle after it gives the client what the same cycle gives on a fresh
\* started channel
AsFresh(ch) ==
    LET r == Restarted(ch)
    IN  /\ r.desc[rx_irq(ch)] = ch
        /\ r.g.data[ch] = NULL
        /\ \A msg \in Msgs, ring \in BOOLEAN :
              SameCycle(Cycle(ch, msg, r.g, ring), Cycle(ch, msg, Fresh, ring))

\* C8 as stated: from any state, after Stop then Start on a channel there is
\* no residual chan->data and a Send / mhu_last_tx_done / interrupt cycle gives
\* the same results as on a freshly constructed and started channel.
C8_RestartAsFreshAlways == \A ch \in Chan : Quiet => AsFresh(ch)

\* C8, amended: the same from any state in which the channel's transmit and
\* receive status registers read zero (neither Stop nor Start resets them).
C8_RestartAsFresh ==
    /\ [](\A ch \in Chan :
             (Quiet /\ mbox[ch * 32] = {} /\ mbox[256 + ch * 32] = {})
             => AsFresh(ch))
    /\ [][\A ch \in Chan :
             /\ Shutdown(ch) => (chan_data'[ch] = NULL /\ ~Installed(ch)')
             /\ Startup(ch) => (Installed(ch)' /\ UNCHANGED chan_data)]_vars

\* a channel that was sent on and armed, never notified, then stopped and
\* started again: handler installed, chan->data NULL, doorbells clear
C8_Witness ==
    \E ch \in Chan :
        /\ Installed(ch)
        /\ chan_data[ch] = NULL
        /\ rcvd[ch] = <<>>
        /\ Slice(payload, 512 + ch * 1024, 512) # {}
        /\ mbox[ch * 32] = {}
        /\ mbox[256 + ch * 32] = {}

\* channel ch is stopped: no mhu_shutdown in progress, no handler on its line
Stopped(ch) == cctx[ch].pc = "idle" /\ ~Installed(ch)

\* C9: mhu_shutdown returns with chan->data NULL, the handler off its line and
\* no handler run in progress; from then until the next mhu_startup no handler
\* of the channel runs: nothing is copied by it and the client gets no
\* notification on the channel, whatever handler run or peer ring the
\* shutdown raced with.
C9_StopDiscards ==
    /\ [](\A ch \in Chan : Stopped(ch) => hctx[ch].pc = "idle")
    /\ [][\A ch \in Chan :
             /\ ShutdownFree(ch)
                => (chan_data'[ch] = NULL /\ Stopped(ch)' /\ hctx'[ch].pc = "idle")
             /\ Stopped(ch)
                => /\ rcvd'[ch] = rcvd[ch]
                   /\ ~HandlerStep(ch)
                   /\ rx_mem' # rx_mem => \E o \in Chan \ {ch} : HandlerStep(o)]_vars

\* mhu_shutdown has cleared chan->data and waits in free_irq while a handler
\* run that fetched the descriptor before is still copying
C9_Witness ==
    \E ch \in Chan :
        /\ cctx[ch].pc = "free_irq"
        /\ chan_data[ch] = NULL
        /\ hctx[ch].pc = "copy"
        /\ hctx[ch].data # NULL
        /\ Installed(ch)

\* C10: an accepted Send with a payload has the whole payload in the
\* channel's transmit slot before it writes the command word to TX_SET: when
\* the write is about to be made, and in the state the write leads to, the slot
\* holds exactly the tx_size bytes of the client's buffer, and only that write
\* raises the transmit doorbell.
C10_PayloadBeforeDoorbell ==
    /\ [](\A ch \in Chan :
             (cctx[ch].pc = "ring" /\ MsgTab[cctx[ch].msg].tx_buf)
             => SameBytes(payload, 512 + ch * 1024, TxBuf(cctx[ch].msg), 0,
                          MsgTab[cctx[ch].msg].tx_size))
    /\ [][\A ch \in Chan :
             (TxStat(mbox', ch) \ TxStat(mbox, ch)) # {}
             => /\ cctx[ch].pc = "ring"
                /\ cctx'[ch].pc = "idle"
                /\ MsgTab[cctx[ch].msg].tx_buf
                   => SameBytes(payload', 512 + ch * 1024, TxBuf(cctx[ch].msg), 0,
                                MsgTab[cctx[ch].msg].tx_size)]_vars

\* a Send with a payload has returned: the doorbell is raised and the slot
\* holds the payload
C10_Witness ==
    \E ch \in Chan :
        /\ cctx[ch].pc = "idle"
        /\ chan_data[ch] # NULL
        /\ MsgTab[chan_data[ch]].tx_buf
        /\ MsgTab[chan_data[ch]].cmd # {}
        /\ MsgTab[chan_data[ch]].cmd \subseteq TxStat(mbox, ch)
        /\ SameBytes(payload, 512 + ch * 1024, TxBuf(chan_data[ch]), 0,
                     MsgTab[chan_data[ch]].tx_size)

\* C11: mhu_send_data with a NULL descriptor returns -EINVAL and changes
\* nothing: no payload byte, no register, and chan->data keeps its value.
C11_NullSendRejected ==
    \A ch \in Chan :
        LET r == mhu_send_data(ch, NULL, Shared)
        IN  Quiet
            => /\ r.ret = "-EINVAL"
               /\ r.g = Shared
               /\ r.g.data[ch] = chan_data[ch]

\* a NULL send can be made on a channel whose slot holds a descriptor and
\* whose transmit doorbell is raised
C11_Witness ==
    \E ch \in Chan :
        /\ chan_data[ch] # NULL
        /\ TxStat(mbox, ch) # {}
        /\ ENABLED SendData(ch, NULL)

\* some operation of channel ch is made in this step
OpOn(ch) ==
    \/ Startup(ch)
    \/ Shutdown(ch)
    \/ \E msg \in Msgs \cup {NULL} : SendData(ch, msg)
    \/ LastTxDone(ch)
    \/ Handler(ch)

\* chan->data, the two status registers and the two payload slots of channel
\* o are the same before and after the step
Untouched(o) ==
    /\ chan_data'[o] = chan_data[o]
    /\ mbox'[o * 32] = mbox[o * 32]
    /\ mbox'[256 + o * 32] = mbox[256 + o * 32]
    /\ SameBytes(payload', o * 1024, payload, o * 1024, 1024)

\* C12: an operation on channel ch (startup, shutdown, send of any descriptor,
\* poll, handler run) leaves chan->data, the registers and both payload slots
\* of every other channel unchanged.
C12_ChannelsIndependent ==
    [][\A ch \in Chan : OpOn(ch) => \A o \in Chan \ {ch} : Untouched(o)]_vars

\* the payload window with every byte outside channel ch's receive slot zeroed
OnlyRxSlot(ch) == Shift(Slice(payload, ch * 1024, 512), ch * 1024)

\* C13: the copy the handler of channel ch makes for the armed descriptor
\* reads only bytes of ch's receive slot (the 0x200 bytes at ch * 0x400): what
\* it leaves in the buffer does not depend on any byte outside the slot; and it
\* writes no byte of the buffer beyond its rx_size.
C13_RxCopyBounded ==
    \A ch \in Chan :
        LET d == chan_data[ch]
        IN  (Installed(ch) /\ mbox[ch * 32] # {} /\ d # NULL /\ MsgTab[d].rx_buf)
            => /\ SameBytes(rx_copy(ch, Shared, d), 0,
                            rx_copy(ch, [Shared EXCEPT !.payload = OnlyRxSlot(ch)], d),
                            0, MsgTab[d].rx_size)
               /\ Outside(rx_copy(ch, Shared, d), 0, MsgTab[d].rx_size)
                  = Outside(rx_mem[d], 0, MsgTab[d].rx_size)

\* the payload slots: one per channel and direction, PAYLOAD_MAX_SIZE bytes
PayloadSlots ==
    {[dir |-> "rx", ch |-> ch, base |-> RX_PAYLOAD(ch)] : ch \in Chan}
    \cup {[dir |-> "tx", ch |-> ch, base |-> TX_PAYLOAD(ch)] : ch \in Chan}

\* C14: for every channel of the controller the receive slot is at ch * 0x400, the transmit slot
\* at ch * 0x400 + 0x200, the receive slot ends at or before the start of the
\* transmit slot, and no two slots of 0x200 bytes overlap.
C14_PayloadSlotsDisjoint ==
    /\ \A ch \in DOMAIN chan_data :
          /\ RX_PAYLOAD(ch) = ch * 1024
          /\ TX_PAYLOAD(ch) = ch * 1024 + 512
          /\ RX_PAYLOAD(ch) + 512 <= TX_PAYLOAD(ch)
    /\ \A a \in PayloadSlots, b \in PayloadSlots :
          a # b => (a.base + 512 <= b.base \/ b.base + 512 <= a.base)
    /\ Cardinality(PayloadSlots) = 2 * Cardinality(Chan)

\* a transmit slot filled to its last byte lies between two receive slots that
\* hold the peer's bytes, and each of the three still has its own content
C14_Witness ==
    /\ SameBytes(payload, 0, PeerBytes, 0, SmallSize)
    /\ SameBytes(payload, 512, TxBuf(4), 0, 512)
    /\ SameBytes(payload, 1024, PeerBytes, 0, SmallSize)
    /\ chan_data[0] = 4

\* the control window with every status register but the one at keep inverted
OnlyReg(keep) ==
    [r \in StatRegs |-> IF r = keep THEN mbox[r] ELSE AllBits \ mbox[r]]

\* the register offsets of all channels and directions
RegOffsets ==
    UNION {{RX_STATUS(ch), RX_SET(ch), RX_CLEAR(ch),
            TX_STATUS(ch), TX_SET(ch), TX_CLEAR(ch)} : ch \in Chan}

\* C15: for channel ch, mhu_send_data writes only TX_SET at 0x100 + 0x20 * ch
\* + 8 (its only register effect is the command word or-ed into the transmit
\* status of ch), mhu_last_tx_done reads only the transmit status at 0x100 +
\* 0x20 * ch, mbox_handler reads only the receive status at 0x20 * ch and
\* writes only RX_CLEAR at 0x20 * ch + 0x10 (its only register effect is the
\* receive status of ch cleared); all status, set and clear offsets differ.
C15_OwnRegistersOnly ==
    /\ \A ch \in DOMAIN chan_data :
          LET h == mbox_handler(ch, rx_irq(ch), Shared)
              o == mbox_handler(ch, rx_irq(ch),
                                [Shared EXCEPT !.mbox = OnlyReg(ch * 32)])
          IN  /\ RX_STATUS(ch) = ch * 32
              /\ RX_CLEAR(ch) = ch * 32 + 16
              /\ TX_STATUS(ch) = 256 + ch * 32
              /\ TX_SET(ch) = 256 + ch * 32 + 8
              /\ \A msg \in Msgs :
                    mhu_send_data(ch, msg, Shared).g.mbox
                    = [mbox EXCEPT ![256 + ch * 32] = @ \cup MsgTab[msg].cmd]
              /\ mhu_last_tx_done(ch, mbox)
                 = mhu_last_tx_done(ch, OnlyReg(256 + ch * 32))
              /\ h.ret = o.ret
              /\ h.g.data = o.g.data
              /\ h.g.rcvd = o.g.rcvd
              /\ h.g.rx_mem = o.g.rx_mem
              /\ h.g.mbox \in {mbox, [mbox EXCEPT ![ch * 32] = {}]}
              /\ h.g.rcvd # rcvd => h.g.mbox[ch * 32] = {}
    /\ Cardinality(RegOffsets) = 6 * Cardinality(Chan)

\* channel ch has been sent on and has had a delivery, the other channel's
\* receive doorbell is raised: its transmit status holds the command word,
\* its receive status is cleared and the other channel's is as the peer left it
C15_Witness ==
    \E ch \in Chan, other \in Chan :
        /\ other # ch
        /\ rcvd[ch] # <<>>
        /\ mbox[ch * 32] = {}
        /\ mbox[256 + ch * 32] # {}
        /\ mbox[other * 32] # {}
        /\ mbox[256 + other * 32] = {}

\* C16: mhu_startup on a channel whose interrupt line already has a handler
\* (a second startup with no shutdown in between) returns -EBUSY and installs
\* nothing; a startup changes no channel state but the line of its own
\* channel; a sibling whose line is free can still be started after the
\* failure, and its send and its handler act as they would have.
C16_StartFailure ==
    /\ [](\A ch \in Chan :
             LET r == mhu_startup(ch, irq_desc)
             IN  (Quiet /\ irq_desc[ch] # NoAction)
                 => /\ r.err = "-EBUSY"
                    /\ r.desc = irq_desc
                    /\ \A o \in Chan \ {ch} :
                          irq_desc[o] = NoAction
                          => /\ mhu_startup(o, r.desc).err = "0"
                             /\ mhu_startup(o, r.desc).desc[o] = o)
    /\ [][\A ch \in Chan :
             Startup(ch)
             => /\ UNCHANGED <<chan_data, mbox, payload, rx_mem, rcvd>>
                /\ \A o \in Chan \ {ch} : irq_desc'[o] = irq_desc[o]
                /\ irq_desc[ch] = NoAction
                /\ irq_desc'[ch] = ch]_vars

\* a started channel with an armed receive can be started a second time while
\* its sibling is still stopped
C16_Witness ==
    \E ch \in Chan, o \in Chan :
        /\ irq_desc[ch] = ch
        /\ chan_data[ch] # NULL
        /\ irq_desc[o] = NoAction
        /\ ENABLED Startup(ch)

\* C17: a delivering handler copies, empties chan->data, notifies and only
\* then clears the doorbell: while a delivery is in progress the receive
\* status of the channel is non-zero (so a peer that waits for it to read zero
\* does not write the slot), and the step that clears it is the handler's
\* last, made after the copy, with chan->data empty and the descriptor handed
\* to the client.
C17_AckLast ==
    /\ [](\A ch \in Chan : hctx[ch].pc # "idle" => mbox[ch * 32] # {})
    /\ [][\A ch \in Chan :
             /\ (mbox[ch * 32] # {} /\ mbox'[ch * 32] = {})
                => /\ hctx[ch].pc = "ack"
                   /\ hctx'[ch].pc = "idle"
                   /\ rcvd[ch] # <<>>
                   /\ rcvd[ch][Len(rcvd[ch])] = hctx[ch].data
             /\ rx_mem' # rx_mem
                => \E o \in Chan : hctx[o].pc = "copy" /\ hctx'[o].pc = "null"
             /\ (hctx[ch].pc = "copy" /\ hctx'[ch].pc = "null")
                => (MsgTab[hctx[ch].data].rx_buf
                    => Delivered(rx_mem', payload, ch, hctx[ch].data))
             /\ (hctx[ch].pc = "null" /\ hctx'[ch].pc = "notify")
                => (chan_data'[ch] = NULL /\ rcvd'[ch] = rcvd[ch])
             /\ (hctx[ch].pc = "notify" /\ hctx'[ch].pc = "ack")
                => rcvd'[ch] = Append(rcvd[ch], hctx[ch].data)]_vars

\* the handler has copied and handed the descriptor over and is about to
\* clear the doorbell, which is still raised
C17_Witness ==
    \E ch \in Chan :
        /\ hctx[ch].pc = "ack"
        /\ mbox[ch * 32] # {}
        /\ rcvd[ch] # <<>>
        /\ rcvd[ch][Len(rcvd[ch])] = hctx[ch].data
        /\ MsgTab[hctx[ch].data].rx_buf
        /\ Delivered(rx_mem, payload, ch, hctx[ch].data)

\* C18: whenever mhu_send_data is about to write the command word to TX_SET
\* of its channel, chan->data of that channel holds the descriptor being
\* sent.
C18_ArmedBeforeRing ==
    \A ch \in Chan :
        cctx[ch].pc = "ring" => chan_data[ch] = cctx[ch].msg

\* C19: under any interleaving of a send with a running handler on the same
\* channel, chan->data goes from a descriptor to NULL only by mhu_shutdown or
\* by the handler that delivers that very descriptor: the handler never
\* empties the slot of a descriptor other than the one it fetched.
C19_NoSilentDrop ==
    [][\A ch \in Chan :
          (chan_data[ch] # NULL /\ chan_data'[ch] = NULL)
          => \/ cctx[ch].pc = "idle" /\ cctx'[ch].pc = "free_irq"
             \/ /\ hctx[ch].pc = "null"
                /\ hctx'[ch].pc = "notify"
                /\ hctx[ch].data = chan_data[ch]]_vars

\* C20: mbox_handler called for channel ch while the RX status of ch reads
\* zero, or with an interrupt number other than ch's rx_irq, returns
\* IRQ_HANDLED and leaves the registers, both payload areas, the client's
\* buffers, the notifications and chan->data (empty or not) as they were.
C20_NotForThisChannel ==
    \A ch \in Chan, irq \in IrqLines :
        LET r == mbox_handler(ch, irq, Shared)
        IN  (mbox[ch * 32] = {} \/ irq # rx_irq(ch))
            => /\ r.ret = "IRQ_HANDLED"
               /\ r.g = Shared

\* one channel armed with its doorbell down, the other armed with its
\* doorbell raised (the case of a call with the wrong interrupt number)
C20_Witness ==
    \E ch \in Chan, other \in Chan :
        /\ other # ch
        /\ Installed(ch)
        /\ chan_data[ch] # NULL
        /\ mbox[ch * 32] = {}
        /\ Installed(other)
        /\ chan_data[other] # NULL
        /\ MsgTab[chan_data[other]].rx_buf
        /\ mbox[other * 32] # {}
        /\ mbox_handler(ch, rx_irq(ch), Shared).ret = "IRQ_HANDLED"
        /\ mbox_handler(other, rx_irq(ch), Shared).g = Shared

====
